---- MODULE Spec2Model ----
(***************************************************************************)
(* helix-core/src/position.rs: the mapping between character indices and   *)
(* visual (row, column) coordinates, Position::traverse and the order of   *)
(* Position.                                                               *)
(*                                                                         *)
(* A text is a sequence of characters drawn from five classes:             *)
(*   "a"  a narrow base character (one column)                             *)
(*   "W"  a full-width base character (two columns)                        *)
(*   "m"  a combining mark (grapheme Extend, no column of its own)         *)
(*   "CR" carriage return, "LF" line feed                                  *)
(* Character indices count characters (0 .. Len(text)); text[k + 1] is the *)
(* character at index k.                                                   *)
(***************************************************************************)
EXTENDS Integers, Sequences, FiniteSets

VARIABLES text, fn, arg_pos, arg_coords, is_1_width, other, ret_pos, ret_coords, ret_ord, chained

vars == <<text, fn, arg_pos, arg_coords, is_1_width, other, ret_pos, ret_coords, ret_ord, chained>>

\* ---------------------------------------------------------------- bounds

\* The longest text, in characters.
MaxLen == 3
\* The largest target column: past the widest line (2 * MaxLen).
MaxCol == 7
\* The largest row and column of a Position handed to traverse and cmp.
MaxStart == 2

Chars == {"a", "W", "m", "CR", "LF"}

Texts == UNION {[1..n -> Chars] : n \in 0..MaxLen}

\* ------------------------------------------------------- Position (value)

Position(row, col) == [row |-> row, col |-> col]

\* The outcome of a call that ends in a panic of the text view.
Panic == 0 - 1

PanicPosition == Position(Panic, Panic)

\* The order with a plausible fault: the column compared before the row.
cmp_col_first(a, b) ==
    IF a.col < b.col THEN "Less"
    ELSE IF a.col > b.col THEN "Greater"
    ELSE IF a.row < b.row THEN "Less"
    ELSE IF a.row > b.row THEN "Greater"
    ELSE "Equal"

\* #[derive(PartialOrd, Ord)] on struct Position { row, col }: the fields are
\* compared in declaration order.
cmp(a, b) ==
    IF a.row < b.row THEN "Less"
    ELSE IF a.row > b.row THEN "Greater"
    ELSE IF a.col < b.col THEN "Less"
    ELSE IF a.col > b.col THEN "Greater"
    ELSE "Equal"

le(a, b) == cmp(a, b) \in {"Less", "Equal"}

\* ------------------------------------------------ the text view (a rope)

\* A line break ends after the e-th character: LF, CR LF as one unit, or a
\* CR that no LF follows.
is_line_break_end(t, e) ==
    /\ e \in 1..Len(t)
    /\ \/ t[e] = "LF"
       \/ t[e] = "CR" /\ (e = Len(t) \/ t[e + 1] # "LF")

line_break_ends(t) == {e \in 1..Len(t) : is_line_break_end(t, e)}

len_lines(t) == Cardinality(line_break_ends(t)) + 1

\* Panics past len_lines; one past the last line gives the text length.
line_to_char(t, line) ==
    IF line > len_lines(t) THEN Panic
    ELSE IF line = 0 THEN 0
    ELSE IF line = len_lines(t) THEN Len(t)
    ELSE CHOOSE e \in line_break_ends(t) :
             Cardinality({f \in line_break_ends(t) : f <= e}) = line

\* Panics past the text length; an index between CR and LF is on CR's line.
char_to_line(t, pos) ==
    IF pos > Len(t) THEN Panic
    ELSE Cardinality({e \in line_break_ends(t) : e <= pos})

\* text.slice(start..end)
slice(t, start, end) == SubSeq(t, start + 1, end)

\* ------------------------------------------------------------- graphemes

char_is_line_ending(ch) == ch \in {"CR", "LF"}

\* Whether a cluster boundary lies at index k of s: no break inside CR LF,
\* a break around every other CR or LF, no break before a combining mark.
is_grapheme_boundary(s, k) ==
    \/ k = 0
    \/ k = Len(s)
    \/ /\ k \in 1..(Len(s) - 1)
       /\ ~(s[k] = "CR" /\ s[k + 1] = "LF")
       /\ ~(s[k + 1] = "m" /\ ~char_is_line_ending(s[k]))

ensure_grapheme_boundary_prev(t, pos) ==
    CHOOSE k \in 0..pos :
        /\ is_grapheme_boundary(t, k)
        /\ \A j \in (k + 1)..pos : ~is_grapheme_boundary(t, j)

next_grapheme_boundary(s, k) ==
    CHOOSE j \in (k + 1)..Len(s) :
        /\ is_grapheme_boundary(s, j)
        /\ \A i \in (k + 1)..(j - 1) : ~is_grapheme_boundary(s, i)

RECURSIVE graphemes_from(_, _)
graphemes_from(s, k) ==
    IF k >= Len(s) THEN <<>>
    ELSE LET j == next_grapheme_boundary(s, k)
         IN  <<SubSeq(s, k + 1, j)>> \o graphemes_from(s, j)

\* RopeGraphemes::new(slice): the clusters of the slice, in order.
RopeGraphemes(s) == graphemes_from(s, 0)

char_width(ch) == IF ch = "W" THEN 2 ELSE IF ch = "a" THEN 1 ELSE 0

RECURSIVE str_width(_)
str_width(g) == IF g = <<>> THEN 0 ELSE char_width(Head(g)) + str_width(Tail(g))

\* The visual width of a cluster: 0, 1 or 2. A line ending occupies one
\* column; marks add nothing to their base.
grapheme_width(g) == IF char_is_line_ending(g[1]) THEN 1 ELSE str_width(g)

\* ----------------------------------------------------------- line ending

\* The number of characters of the line ending the slice ends with.
get_line_ending_len(s) ==
    IF Len(s) >= 2 /\ s[Len(s) - 1] = "CR" /\ s[Len(s)] = "LF" THEN 2
    ELSE IF Len(s) >= 1 /\ char_is_line_ending(s[Len(s)]) THEN 1
    ELSE 0

line_end_char_index(t, line) ==
    IF line_to_char(t, line + 1) = Panic THEN Panic
    ELSE line_to_char(t, line + 1)
         - get_line_ending_len(slice(t, line_to_char(t, line), line_to_char(t, line + 1)))

\* -------------------------------------------------------------- traverse

RECURSIVE traverse_from(_, _, _, _)
traverse_from(chars, i, row, col) ==
    IF i > Len(chars) THEN Position(row, col)
    ELSE IF /\ char_is_line_ending(chars[i])
            /\ ~(chars[i] = "CR" /\ i < Len(chars) /\ chars[i + 1] = "LF")
         THEN traverse_from(chars, i + 1, row + 1, 0)
         ELSE traverse_from(chars, i + 1, row, col + 1)

RECURSIVE traverse_each_from(_, _, _, _)
traverse_each_from(chars, i, row, col) ==
    IF i > Len(chars) THEN Position(row, col)
    ELSE IF char_is_line_ending(chars[i])
         THEN traverse_each_from(chars, i + 1, row + 1, 0)
         ELSE traverse_each_from(chars, i + 1, row, col + 1)

\* traverse with a plausible fault: no look-ahead, so CR LF counts as two
\* line endings.
traverse_no_peek(self, t) == traverse_each_from(t, 1, self.row, self.col)

traverse(self, t) == traverse_from(t, 1, self.row, self.col)

\* --------------------------------------------------------- coords_at_pos

RECURSIVE sum_widths(_)
sum_widths(gs) ==
    IF gs = <<>> THEN 0 ELSE grapheme_width(Head(gs)) + sum_widths(Tail(gs))

\* coords_at_pos with a plausible fault: the column counts characters, not
\* widths.
coords_at_pos_chars(t, pos) ==
    LET line == char_to_line(t, pos)
    IN  IF line = Panic THEN PanicPosition
        ELSE Position(line, ensure_grapheme_boundary_prev(t, pos) - line_to_char(t, line))

coords_at_pos(t, pos) ==
    LET line == char_to_line(t, pos)
    IN  IF line = Panic THEN PanicPosition
        ELSE LET line_start == line_to_char(t, line)
                 pos1 == ensure_grapheme_boundary_prev(t, pos)
                 col == sum_widths(RopeGraphemes(slice(t, line_start, pos1)))
             IN  Position(line, col)

\* --------------------------------------------------------- pos_at_coords

RECURSIVE walk(_, _, _, _, _)
walk(gs, k, col, prev_col, col_char_offset) ==
    IF k > Len(gs) THEN col_char_offset
    ELSE LET next_col == prev_col + grapheme_width(gs[k])
         IN  IF next_col > col THEN col_char_offset
             ELSE walk(gs, k + 1, col, next_col, col_char_offset + Len(gs[k]))

\* The result of pos_at_coords from its line bounds and the loop's offset.
pos_from(t, line_start, line_end, offset) ==
    IF line_start = Panic \/ line_end = Panic THEN Panic ELSE line_start + offset

line_end_of(t, row, block) ==
    IF block THEN line_end_char_index(t, row)
    ELSE line_to_char(t, IF row + 1 < len_lines(t) THEN row + 1 ELSE len_lines(t))

line_graphemes(t, row, block) ==
    IF line_to_char(t, row) = Panic \/ line_end_of(t, row, block) = Panic THEN <<>>
    ELSE RopeGraphemes(slice(t, line_to_char(t, row), line_end_of(t, row, block)))

RECURSIVE walk_ge(_, _, _, _, _)
walk_ge(gs, k, col, prev_col, col_char_offset) ==
    IF k > Len(gs) THEN col_char_offset
    ELSE LET next_col == prev_col + grapheme_width(gs[k])
         IN  IF next_col >= col THEN col_char_offset
             ELSE walk_ge(gs, k + 1, col, next_col, col_char_offset + Len(gs[k]))

\* pos_at_coords with a plausible fault: the loop breaks on next_col >= col.
pos_at_coords_ge(t, coords, block) ==
    pos_from(t, line_to_char(t, coords.row), line_end_of(t, coords.row, block),
             walk_ge(line_graphemes(t, coords.row, block), 1, coords.col, 0, 0))

RECURSIVE walk_round_up(_, _, _, _, _)
walk_round_up(gs, k, col, prev_col, col_char_offset) ==
    IF k > Len(gs) THEN col_char_offset
    ELSE IF prev_col >= col THEN col_char_offset
         ELSE walk_round_up(gs, k + 1, col, prev_col + grapheme_width(gs[k]),
                            col_char_offset + Len(gs[k]))

\* pos_at_coords with a plausible fault: a cluster is consumed as soon as
\* col reaches into it (rounding up).
pos_at_coords_round_up(t, coords, block) ==
    pos_from(t, line_to_char(t, coords.row), line_end_of(t, coords.row, block),
             walk_round_up(line_graphemes(t, coords.row, block), 1, coords.col, 0, 0))

RECURSIVE walk_one_char(_, _, _, _, _)
walk_one_char(gs, k, col, prev_col, col_char_offset) ==
    IF k > Len(gs) THEN col_char_offset
    ELSE LET next_col == prev_col + grapheme_width(gs[k])
         IN  IF next_col > col THEN col_char_offset
             ELSE walk_one_char(gs, k + 1, col, next_col, col_char_offset + 1)

\* pos_at_coords with a plausible fault: every cluster advances the index
\* by one character.
pos_at_coords_one_char(t, coords, block) ==
    pos_from(t, line_to_char(t, coords.row), line_end_of(t, coords.row, block),
             walk_one_char(line_graphemes(t, coords.row, block), 1, coords.col, 0, 0))

\* pos_at_coords with a plausible fault: is_1_width is ignored, the line end
\* is always the start of the next line.
pos_at_coords_never_block(t, coords, block) ==
    pos_from(t, line_to_char(t, coords.row), line_end_of(t, coords.row, FALSE),
             walk(line_graphemes(t, coords.row, FALSE), 1, coords.col, 0, 0))

\* pos_at_coords with a plausible fault: the line end is always the line's
\* content end.
pos_at_coords_always_block(t, coords, block) ==
    pos_from(t, line_to_char(t, coords.row), line_end_of(t, coords.row, TRUE),
             walk(line_graphemes(t, coords.row, TRUE), 1, coords.col, 0, 0))

\* pos_at_coords with a plausible fault: the row is clamped to the last line.
pos_at_coords_clamp_row(t, coords, block) ==
    LET row == IF coords.row < len_lines(t) THEN coords.row ELSE len_lines(t) - 1
    IN  pos_from(t, line_to_char(t, row), line_end_of(t, row, block),
                 walk(line_graphemes(t, row, block), 1, coords.col, 0, 0))

pos_at_coords(t, coords, block) ==
    LET row == coords.row
        col == coords.col
        line_start == line_to_char(t, row)
        line_end == line_end_of(t, row, block)
    IN  pos_from(t, line_start, line_end,
                 walk(line_graphemes(t, row, block), 1, col, 0, 0))

\* ------------------------------------------------------------ the calls

Init ==
    /\ text \in Texts
    /\ fn = "none"
    /\ arg_pos = 0
    /\ arg_coords = Position(0, 0)
    /\ is_1_width = FALSE
    /\ other = Position(0, 0)
    /\ ret_pos = 0
    /\ ret_coords = Position(0, 0)
    /\ ret_ord = "Equal"
    /\ chained = FALSE

Origin == Position(0, 0)

\* coords_at_pos(text, pos), pos up to one past the text length.
CoordsAtPos ==
    \E pos \in 0..(Len(text) + 1) :
        /\ fn = "none"
        /\ fn' = "coords_at_pos"
        /\ arg_pos' = pos
        /\ ret_coords' = coords_at_pos(text, pos)
        /\ chained' = FALSE
        /\ arg_coords' = Origin /\ is_1_width' = FALSE /\ other' = Origin
        /\ ret_pos' = 0 /\ ret_ord' = "Equal"
        /\ UNCHANGED text

\* pos_at_coords(text, (row, col), is_1_width), row up to one past len_lines.
PosAtCoords ==
    \E row \in 0..(len_lines(text) + 1), col \in 0..MaxCol, block \in BOOLEAN :
        /\ fn = "none"
        /\ fn' = "pos_at_coords"
        /\ arg_coords' = Position(row, col)
        /\ is_1_width' = block
        /\ ret_pos' = pos_at_coords(text, Position(row, col), block)
        /\ chained' = FALSE
        /\ arg_pos' = 0 /\ other' = Origin /\ ret_coords' = Origin /\ ret_ord' = "Equal"
        /\ UNCHANGED text

\* pos_at_coords applied to the coordinates coords_at_pos has just returned
\* for arg_pos.
PosAtCoordsOfCoords ==
    \E block \in BOOLEAN :
        /\ fn = "coords_at_pos" /\ ~chained /\ ret_coords # PanicPosition
        /\ fn' = "pos_at_coords"
        /\ arg_coords' = ret_coords
        /\ is_1_width' = block
        /\ ret_pos' = pos_at_coords(text, ret_coords, block)
        /\ chained' = TRUE
        /\ UNCHANGED <<text, arg_pos, other, ret_coords, ret_ord>>

\* coords_at_pos applied to the index pos_at_coords has just returned for
\* arg_coords.
CoordsAtPosOfPos ==
    /\ fn = "pos_at_coords" /\ ~chained /\ ret_pos # Panic
    /\ fn' = "coords_at_pos"
    /\ arg_pos' = ret_pos
    /\ ret_coords' = coords_at_pos(text, ret_pos)
    /\ chained' = TRUE
    /\ UNCHANGED <<text, arg_coords, is_1_width, other, ret_pos, ret_ord>>

\* start.traverse(text)
Traverse ==
    \E row \in 0..MaxStart, col \in 0..MaxStart :
        /\ fn = "none"
        /\ fn' = "traverse"
        /\ arg_coords' = Position(row, col)
        /\ ret_coords' = traverse(Position(row, col), text)
        /\ chained' = FALSE
        /\ arg_pos' = 0 /\ is_1_width' = FALSE /\ other' = Origin
        /\ ret_pos' = 0 /\ ret_ord' = "Equal"
        /\ UNCHANGED text

\* a.cmp(&b)
Compare ==
    \E r1 \in 0..MaxStart, c1 \in 0..MaxStart, r2 \in 0..MaxStart, c2 \in 0..MaxStart :
        /\ fn = "none"
        /\ fn' = "cmp"
        /\ arg_coords' = Position(r1, c1)
        /\ other' = Position(r2, c2)
        /\ ret_ord' = cmp(Position(r1, c1), Position(r2, c2))
        /\ chained' = FALSE
        /\ arg_pos' = 0 /\ is_1_width' = FALSE /\ ret_pos' = 0 /\ ret_coords' = Origin
        /\ UNCHANGED text

Next ==
    \/ CoordsAtPos
    \/ PosAtCoords
    \/ PosAtCoordsOfCoords
    \/ CoordsAtPosOfPos
    \/ Traverse
    \/ Compare

Spec == Init /\ [][Next]_vars

\* ------------------------------------------------- vocabulary of the claims

\* The cluster of the whole text t that starts at boundary index s.
cluster_at(t, s) == SubSeq(t, s + 1, next_grapheme_boundary(t, s))

\* The indices in from..(to - 1) at which a cluster of the whole text starts.
cluster_starts(t, from, to) == {s \in from..(to - 1) : is_grapheme_boundary(t, s)}

RECURSIVE sum_cluster_widths(_, _)
sum_cluster_widths(t, S) ==
    IF S = {} THEN 0
    ELSE LET s == CHOOSE x \in S : TRUE
         IN  grapheme_width(cluster_at(t, s)) + sum_cluster_widths(t, S \ {s})

\* The visual width of the clusters of the whole text within [from, to).
width_between(t, from, to) == sum_cluster_widths(t, cluster_starts(t, from, to))

row_exists(t, row) == row < len_lines(t)

\* The index just past line row: the start of line row + 1, the text length
\* for the last line.
next_line_start(t, row) ==
    IF row + 1 < len_lines(t) THEN line_to_char(t, row + 1) ELSE Len(t)

\* The index at which the line-ending sequence of line row starts (the text
\* length for the last line, which has none).
content_end(t, row) ==
    LET ns == next_line_start(t, row)
    IN  IF row + 1 >= len_lines(t) THEN ns
        ELSE IF ns >= 2 /\ t[ns] = "LF" /\ t[ns - 1] = "CR" THEN ns - 2
        ELSE ns - 1

\* The total visual width of line row, its line ending included.
line_width(t, row) == width_between(t, line_to_char(t, row), next_line_start(t, row))

\* The visual width of line row without its line ending.
content_width(t, row) == width_between(t, line_to_char(t, row), content_end(t, row))

returned_pos == fn = "pos_at_coords" /\ row_exists(text, arg_coords.row)

\* ------------------------------------------------------------ the claims

C2_ForwardLeTarget ==
    (/\ fn = "coords_at_pos" /\ chained /\ row_exists(text, arg_coords.row))
        => le(ret_coords, arg_coords)

\* C2 (amended): the forward-mapped coordinate is <= the target when
\* is_1_width = true, when row is the last line, or when col is less than the
\* line's total width (line ending included); otherwise (is_1_width = false,
\* a line followed by another, col at or beyond the total width) the index
\* is the start of the next line and maps to (row + 1, 0).
C2_ForwardLeTargetOrNextLine ==
    (/\ fn = "coords_at_pos" /\ chained /\ row_exists(text, arg_coords.row))
        => IF \/ is_1_width
              \/ arg_coords.row + 1 = len_lines(text)
              \/ arg_coords.col < line_width(text, arg_coords.row)
           THEN le(ret_coords, arg_coords)
           ELSE ret_coords = Position(arg_coords.row + 1, 0)

\* C2 witness: a block-cursor target past the end of a terminated line of
\* width 2, mapped forward again.
C2_Witness ==
    /\ fn = "coords_at_pos" /\ chained /\ row_exists(text, arg_coords.row)
    /\ is_1_width
    /\ arg_coords.row + 1 < len_lines(text)
    /\ arg_coords.col > line_width(text, arg_coords.row)
    /\ ret_coords.row = arg_coords.row
    /\ ret_coords.col = 2

\* C3: with is_1_width = true and an existing row, pos_at_coords never
\* returns an index past the index at which the line's line ending starts
\* (the text length for a last line), and every col at or beyond the
\* line's content width returns exactly that index.
C3_BlockCursorClamped ==
    (returned_pos /\ is_1_width)
        => /\ ret_pos <= content_end(text, arg_coords.row)
           /\ arg_coords.col >= content_width(text, arg_coords.row)
                 => ret_pos = content_end(text, arg_coords.row)

\* C3 witness: col 3 on a terminated line of content width 2, clamped to
\* the start of the line ending.
C3_Witness ==
    /\ returned_pos /\ is_1_width /\ ~chained
    /\ arg_coords.row + 1 < len_lines(text)
    /\ content_width(text, arg_coords.row) = 2
    /\ arg_coords.col = 3
    /\ ret_pos = content_end(text, arg_coords.row)
    /\ ret_pos < next_line_start(text, arg_coords.row)

C5_ResultOnBoundary ==
    returned_pos
        => /\ ret_pos \in 0..Len(text)
           /\ is_grapheme_boundary(text, ret_pos)
           /\ ret_pos \in 1..(Len(text) - 1)
                 => /\ ~(text[ret_pos] = "CR" /\ text[ret_pos + 1] = "LF")
                    /\ ~(text[ret_pos] \in {"a", "W"} /\ text[ret_pos + 1] = "m")

\* C5 witness: the result lands just after a CR LF pair, not inside it.
C5_Witness ==
    /\ returned_pos /\ ~chained /\ ~is_1_width
    /\ ret_pos = 3 /\ Len(text) = 3
    /\ text[1] = "a" /\ text[2] = "CR" /\ text[3] = "LF"
    /\ arg_coords = Position(0, 2)

\* C6: start.traverse(text) is (row + k, col') where k is the number of
\* line-terminator sequences of the text (LF, CR LF as one, CR without LF),
\* and col' is col plus the number of characters when k = 0, else the
\* number of characters after the last terminator; raw characters, not widths.
C6_Traverse ==
    fn = "traverse"
        => LET ends == line_break_ends(text)
               k == Cardinality(ends)
               last == CHOOSE e \in ends : \A f \in ends : f <= e
           IN  ret_coords = Position(arg_coords.row + k,
                                     IF k = 0 THEN arg_coords.col + Len(text)
                                     ELSE Len(text) - last)

\* C6 witness: CR LF counted once, then one full-width character counted
\* as one column.
C6_Witness ==
    /\ fn = "traverse"
    /\ Len(text) = 3 /\ text[1] = "CR" /\ text[2] = "LF" /\ text[3] = "W"
    /\ arg_coords = Position(1, 2)
    /\ ret_coords = Position(2, 1)

\* C7: a.cmp(b) is Less exactly when a.row < b.row, or the rows are equal
\* and a.col < b.col; Equal exactly when both fields are equal; so the
\* order is total and (r, x) < (r + 1, y) for all x, y.
C7_LexicographicOrder ==
    fn = "cmp"
        => /\ ret_ord = "Less"
                <=> \/ arg_coords.row < other.row
                    \/ arg_coords.row = other.row /\ arg_coords.col < other.col
           /\ ret_ord = "Equal" <=> arg_coords = other
           /\ ret_ord = "Greater"
                <=> \/ other.row < arg_coords.row
                    \/ other.row = arg_coords.row /\ other.col < arg_coords.col

\* C7 witness: a smaller row with a larger column compares Less.
C7_Witness ==
    /\ fn = "cmp"
    /\ arg_coords.row + 1 = other.row
    /\ arg_coords.col > other.col
    /\ ret_ord = "Less"

\* C8 (as stated): pos_at_coords with a row >= len_lines (either mode) and
\* coords_at_pos with pos > Len(text) end in a panic.
C8_OutOfRangePanics ==
    /\ (fn = "pos_at_coords" /\ ~chained /\ arg_coords.row >= len_lines(text))
          => ret_pos = Panic
    /\ (fn = "coords_at_pos" /\ ~chained /\ arg_pos > Len(text))
          => ret_coords = PanicPosition

\* C8 (amended): coords_at_pos with pos > Len(text), pos_at_coords with
\* row > len_lines (either mode) and pos_at_coords with row = len_lines
\* and is_1_width = true end in a panic; pos_at_coords with row = len_lines
\* and is_1_width = false returns the text length.
C8_OutOfRangePanicsOrClamps ==
    /\ (fn = "pos_at_coords" /\ ~chained /\ arg_coords.row >= len_lines(text))
          => IF arg_coords.row = len_lines(text) /\ ~is_1_width
             THEN ret_pos = Len(text)
             ELSE ret_pos = Panic
    /\ (fn = "coords_at_pos" /\ ~chained /\ arg_pos > Len(text))
          => ret_coords = PanicPosition

\* C8 witness: a row two past the last line of a non-empty text panics.
C8_Witness ==
    /\ fn = "pos_at_coords" /\ ~chained
    /\ arg_coords.row = len_lines(text) + 1
    /\ Len(text) > 0
    /\ ret_pos = Panic

\* C9: for an existing row and either mode, when col lies in the column span
\* of a double-width cluster of the line (width before it <= col < width
\* before it + 2), pos_at_coords returns the index of the cluster's first
\* character.
C9_RoundsDownToClusterStart ==
    returned_pos
        => \A s \in cluster_starts(text, line_to_char(text, arg_coords.row),
                                   next_line_start(text, arg_coords.row)) :
               LET before == width_between(text, line_to_char(text, arg_coords.row), s)
               IN  (/\ grapheme_width(cluster_at(text, s)) = 2
                    /\ before <= arg_coords.col
                    /\ arg_coords.col < before + 2)
                       => ret_pos = s

\* C9 witness: col 3 on a line of full-width characters gives index 1.
C9_Witness ==
    /\ returned_pos /\ ~chained
    /\ Len(text) >= 2 /\ text[1] = "W" /\ text[2] = "W"
    /\ arg_coords = Position(0, 3)
    /\ ret_pos = 1

\* C10: with is_1_width = false and an existing row, a col at or beyond the
\* line's total visual width (line ending included) makes pos_at_coords
\* return the start of line row + 1, or the text length on the last line.
C10_PastLineWidthGivesLineEnd ==
    (returned_pos /\ ~is_1_width
     /\ arg_coords.col >= line_width(text, arg_coords.row))
        => ret_pos = next_line_start(text, arg_coords.row)

\* C10 witness: a col past the whole first line returns the start of the
\* second line.
C10_Witness ==
    /\ returned_pos /\ ~chained /\ ~is_1_width
    /\ arg_coords.row + 1 < len_lines(text)
    /\ arg_coords.col > line_width(text, arg_coords.row)
    /\ line_width(text, arg_coords.row) > 1
    /\ ret_pos = line_to_char(text, arg_coords.row + 1)
    /\ ret_pos < Len(text)

====
